---- MODULE Spec2Model ----
(***************************************************************************)
(* postgres_to_polars: the session (models/client.rs) speaking the         *)
(* extended-query protocol over one connection, and the pool               *)
(* (models/pool.rs) that shares max_connections sessions.                  *)
(*                                                                         *)
(* The state machines of this module:                                      *)
(*   SpecSession  one Client, its socket and the backend it talks to, the  *)
(*                queries made one after the other;                        *)
(*   SpecCancel   the same, the caller being free to drop a pending query; *)
(*   SpecConnect  a Client from Client::new through connect to its queries;*)
(*   SpecShared   one Client shared by tasks that call query and ping      *)
(*                concurrently;                                            *)
(*   SpecPool     one Pool, the tasks that acquire and drop ClientRef      *)
(*                handles, and the release tasks that Drop spawns.         *)
(***************************************************************************)
EXTENDS Integers, Sequences, FiniteSets, TLC

(***************************************************************************)
(* Bounds of the model.                                                    *)
(***************************************************************************)
\* number of Client::query calls made on the session
MaxQueries == 3
\* number of calls made on a connection that is already closed or broken
MaxDeadCalls == 1
\* PoolOptions.max_connections of the pool modelled
MaxConnections == 2
\* number of tasks that use the pool, each acquiring one handle
NumTasks == 3
\* number of tasks that share one session, each making one call on it
NumCallers == 2
\* number of cells pushed onto the column that is decoded
MaxCells == 1
\* number of elements of the text[] values decoded
MaxItems == 2
\* number of bytes by which a text[] payload is cut short
MaxCut == 5

(***************************************************************************)
(* Inputs of Client::query.                                                *)
(***************************************************************************)
\* SQL texts: two row-returning statements of different shape, a statement
\* without result columns, and a text the backend refuses at Parse.
SQL == {"sel1", "sel2", "ins", "bad"}

\* parameter-OID vectors as format_params produces them: Int4 -> 23, Text -> 25
OidVectors == {<<23>>, <<25>>}

\* A call: the text, the OIDs of its parameters, and whether the backend
\* executes it without error for the parameter values given (a division by
\* a parameter that is zero fails at Execute, not at Parse). "sel1" is the
\* text called with either OID vector and with failing parameter values.
Calls ==
    {c \in [sql : SQL, param_types : OidVectors, exec_ok : BOOLEAN] :
        c.sql # "sel1" => (c.exec_ok /\ c.param_types = <<23>>)}

ParseOk(sql) == sql # "bad"

NumColumns(sql) == CASE sql = "sel1" -> 1 [] sql = "sel2" -> 2 [] OTHER -> 0

\* the rows the backend finds for a row-returning text
NumRows(sql) == CASE sql = "sel1" -> 1 [] sql = "sel2" -> 2 [] OTHER -> 0

\* utils::statement_name: "stmt_" + md5 of the text (collisions excluded)
statement_name(sql) == "stmt_" \o sql

\* nanoid!(): a fresh random name for every call
nanoid(n) == "nano_" \o ToString(n)

(***************************************************************************)
(* State.                                                                  *)
(***************************************************************************)
VARIABLES
    \* ---- Client (one session) ----
    prepare_opt,          \* options.prepare
    healthy,              \* Client.healthy
    portal_count,         \* Client.portal_count
    prepared_statements,  \* Client.prepared_statements: name -> info
    \* ---- the connection and the backend ----
    conn,                 \* "open" | "closed" (by the backend) | "broken"
    wire,                 \* backend messages sent and not yet read
    server_stmts,         \* names of the prepared statements the backend holds
    \* ---- the query call in progress (or the last one) ----
    pc,                   \* "idle" | "reading"
    call,                 \* its arguments and the locals name, prepare
    columns,              \* local `columns`: the length of each builder
    error_to_return,      \* local `error_to_return`: 0 (None) or the error
    sent,                 \* frontend messages written by the call
    result,               \* what the call returned ("None" before any)
    hist,                 \* history of the call, for the properties
    dead_calls,           \* calls started on a closed or broken connection
    \* ---- Pool ----
    available,            \* Pool.available
    permits,              \* free permits of Pool.semaphore
    task,                 \* the tasks that use the pool
    job,                  \* the release tasks spawned by ClientRef::drop
    expired,              \* tasks whose acquire outlasted acquire_timeout
    \* ---- the startup handshake ----
    startup,              \* what the backend awaits: "packet" | "password",
                          \* or "done" (it welcomed or refused the session)
    handshake,            \* what connect returned ("None" before), and its
                          \* history, for the properties
    \* ---- concurrent calls on one session ----
    caller,               \* the tasks that call query or ping on the session
    stream_lock,          \* holder of the Mutex of Client.stream (0: free)
    cache_lock,           \* holder of the Mutex of Client.prepared_statements
    backend,              \* the backend between two frontend messages: the
                          \* state of the portal and whether it discards
                          \* messages until Sync
    \* ---- Pool::new ----
    client_futures,       \* the futures that make and connect the sessions
    construction,         \* what Pool::new returned ("running" before)
    \* ---- the decoding of one cell (models/column_result.rs) ----
    column,               \* the ColumnStorage: its variant and its data
    pushed,               \* the payloads given to push_column_value
    outcome,              \* "ok", or "panic" once the task panicked
    overflow_checks       \* the build checks integer overflow (debug profile)

sessVars == <<prepare_opt, healthy, portal_count, prepared_statements, conn,
              wire, server_stmts, pc, call, columns, error_to_return, sent,
              result, hist, dead_calls>>
poolVars == <<available, permits, task, job, expired>>
connVars == <<startup, handshake>>
shareVars == <<caller, stream_lock, cache_lock, backend>>
newVars == <<client_futures, construction>>
decodeVars == <<column, pushed, outcome, overflow_checks>>
vars == <<sessVars, poolVars, connVars, shareVars, newVars, decodeVars>>

\* what the steps of a session, of the pool, of connect, of the callers that
\* share a session and of Pool::new leave alone
outsideSession == <<poolVars, connVars, shareVars, newVars, decodeVars>>
outsidePool == <<sessVars, connVars, shareVars, newVars, decodeVars>>
outsideConnect == <<poolVars, shareVars, newVars, decodeVars>>
outsideShared == <<poolVars, connVars, newVars, decodeVars>>
outsideNew == <<sessVars, connVars, shareVars, decodeVars>>

(***************************************************************************)
(* The backend: how a PostgreSQL server answers the frontend messages of   *)
(* one query call.  A backend message is [t, q, n]: its tag, the call      *)
(* (portal number) whose request it answers, and for RowDescription and    *)
(* DataRow the number of fields it carries.                                *)
(***************************************************************************)
Msg(t, q, n) == [t |-> t, q |-> q, n |-> n]

RECURSIVE Rows(_, _, _)
Rows(k, q, n) == IF k = 0 THEN <<>> ELSE <<Msg("DataRow", q, n)>> \o Rows(k - 1, q, n)

\* One frontend message processed by the backend. b is the backend's state:
\* the statements it holds, the state of the call's portal, whether it is
\* discarding messages until Sync after an error, and its answers so far.
\* A row-returning portal run to its end may be executed again and yields
\* no further row; a portal of a statement without result is done after one
\* Execute and a second Execute on it is an error. Query is the simple
\* query of ping ("SELECT 1"): one row of one field, then ReadyForQuery.
ServerStep(b, m, c, q) ==
    LET say(ms) == [b EXCEPT !.out = b.out \o ms]
        fail == [b EXCEPT !.out = b.out \o <<Msg("ErrorResponse", q, 0)>>,
                          !.skip = TRUE]
        n == NumColumns(c.sql)
    IN
    IF m = "Sync"
    THEN [b EXCEPT !.out = b.out \o <<Msg("ReadyForQuery", q, 0)>>,
                   !.skip = FALSE, !.portal = "none"]
    ELSE IF b.skip THEN b
    ELSE CASE m = "Parse" ->
                IF ~ParseOk(c.sql) \/ c.name \in b.stmts
                THEN fail
                ELSE [say(<<Msg("ParseComplete", q, 0)>>)
                        EXCEPT !.stmts = b.stmts \cup {c.name}]
           [] m = "Describe" ->
                IF c.name \notin b.stmts
                THEN fail
                ELSE say(<<Msg("ParameterDescription", q, 0),
                           IF n > 0 THEN Msg("RowDescription", q, n)
                                    ELSE Msg("NoData", q, 0)>>)
           [] m = "Bind" ->
                IF c.name \notin b.stmts
                THEN fail
                ELSE [say(<<Msg("BindComplete", q, 0)>>) EXCEPT !.portal = "fresh"]
           [] m = "Execute" ->
                CASE b.portal = "fresh" /\ ~c.exec_ok -> fail
                  [] b.portal = "fresh" /\ c.exec_ok ->
                        [say(Rows(NumRows(c.sql), q, n)
                             \o <<Msg("CommandComplete", q, 0)>>)
                           EXCEPT !.portal = IF n > 0 THEN "atEnd" ELSE "done"]
                  [] b.portal = "atEnd" -> say(<<Msg("CommandComplete", q, 0)>>)
                  [] OTHER -> fail
           [] m = "Close" ->
                [say(<<Msg("CloseComplete", q, 0)>>) EXCEPT !.portal = "none"]
           [] m = "Query" ->
                say(<<Msg("RowDescription", q, 1), Msg("DataRow", q, 1),
                      Msg("CommandComplete", q, 0), Msg("ReadyForQuery", q, 0)>>)
           [] OTHER -> b

RECURSIVE ServerRun(_, _, _, _)
ServerRun(b, ms, c, q) ==
    IF ms = <<>> THEN b ELSE ServerRun(ServerStep(b, Head(ms), c, q), Tail(ms), c, q)

\* The backend's state after the messages ms of call c (portal number q).
Server(ms, c, q) ==
    ServerRun([stmts |-> server_stmts, portal |-> "none", skip |-> FALSE,
               out |-> <<>>], ms, c, q)

(***************************************************************************)
(* Client::query, first part: portal counter, statement name, cache        *)
(* lookup, and the frontend messages written.                              *)
(***************************************************************************)
mark_healthy == TRUE
mark_unhealthy == FALSE

\* models/column_result.rs has no clone_storages: the template kept in the
\* cache is the builders emptied ("cloned (empty)").
clone_storages(cols) == [i \in DOMAIN cols |-> 0]

\* local `name`
NameOf(c, n) == IF prepare_opt THEN statement_name(c.sql) ELSE nanoid(n)

\* Lookup with the OID comparison lost: a cached name whose OIDs differ is
\* prepared again under the same name (a mutant of Lookup)
Lookup_Reprepare(name, param_types) ==
    IF name \in DOMAIN prepared_statements
       /\ prepared_statements[name].param_types = param_types
    THEN [ret |-> "None", prepare |-> FALSE,
          columns |-> prepared_statements[name].columns]
    ELSE [ret |-> "None", prepare |-> TRUE, columns |-> <<>>]

\* the cache lookup: (prepare, columns), or the ParamTypeMismatch return
Lookup(name, param_types) ==
    IF name \in DOMAIN prepared_statements
    THEN IF prepared_statements[name].param_types # param_types
         THEN [ret |-> "ParamTypeMismatch", prepare |-> FALSE, columns |-> <<>>]
         ELSE [ret |-> "None", prepare |-> FALSE,
               columns |-> prepared_statements[name].columns]
    ELSE [ret |-> "None", prepare |-> TRUE, columns |-> <<>>]

\* The socket writes of one call, one element per write_all. `buf` is not
\* cleared between Execute and Close, so the write after Execute carries the
\* Execute message again, followed by Close.
Writes(prepare) ==
    (IF prepare THEN << <<"Parse">>, <<"Describe">> >> ELSE <<>>)
    \o << <<"Bind">>, <<"Execute">>, <<"Execute", "Close">>, <<"Sync">> >>

\* the DataRow messages among the backend messages ms
DataRows(ms) == Cardinality({i \in DOMAIN ms : ms[i].t = "DataRow"})

RECURSIVE Flatten(_)
Flatten(ws) == IF ws = <<>> THEN <<>> ELSE Head(ws) \o Flatten(Tail(ws))

\* History of a call: the health flag it started with (healthy0), what the
\* call before it returned (prev), whether the backend received its Sync
\* (answered), the number of DataRow messages the backend sent in answer to
\* it (rows), whether its own ReadyForQuery and a message answering another
\* call were dispatched (rfq, foreign), the ErrorResponse messages it
\* dispatched, in order (errs), the message at which its read loop ended
\* (stop), and the (text, OIDs) pairs of the earlier calls that returned Ok
\* (succ).
Started(c) ==
    [healthy0 |-> healthy, prev |-> result, answered |-> FALSE, rows |-> 0,
     rfq |-> FALSE, foreign |-> FALSE, errs |-> <<>>, stop |-> "none",
     succ |-> hist.succ \cup
              (IF result = "Ok" THEN {<<call.sql, call.param_types>>} ELSE {})]

Locals(c, name, prepare) ==
    [sql |-> c.sql, param_types |-> c.param_types, exec_ok |-> c.exec_ok,
     name |-> name, prepare |-> prepare]

\* a call may start: none is in progress, within the bounds of the model
StartCall ==
    /\ pc = "idle" /\ portal_count < MaxQueries
    /\ conn # "open" => dead_calls < MaxDeadCalls
    /\ dead_calls' = IF conn # "open" THEN dead_calls + 1 ELSE dead_calls

\* lines 134-156: the cached OIDs differ: return before the stream is locked
QueryMismatch(c) ==
    /\ StartCall
    /\ LET n == portal_count + 1
           name == NameOf(c, n)
           l == Lookup(name, c.param_types)
       IN /\ l.ret = "ParamTypeMismatch"
          /\ portal_count' = n
          /\ call' = Locals(c, name, l.prepare)
          /\ columns' = l.columns
          /\ error_to_return' = 0
          /\ sent' = <<>>
          /\ result' = "ParamTypeMismatch"
          /\ hist' = Started(c)
    /\ UNCHANGED <<prepare_opt, healthy, prepared_statements, conn, wire,
                   server_stmts, pc, outsideSession>>

\* lines 134-204: every write succeeds; the backend answers at Sync. After
\* the backend closed the connection the bytes go nowhere.
QueryWrite(c) ==
    /\ StartCall
    /\ conn \in {"open", "closed"}
    /\ LET n == portal_count + 1
           name == NameOf(c, n)
           l == Lookup(name, c.param_types)
           loc == Locals(c, name, l.prepare)
           ms == Flatten(Writes(l.prepare))
           b == Server(ms, loc, n)
       IN /\ l.ret = "None"
          /\ portal_count' = n
          /\ call' = loc
          /\ columns' = l.columns
          /\ error_to_return' = 0
          /\ sent' = ms
          /\ hist' = [Started(c) EXCEPT
                        !.answered = (conn = "open"),
                        !.rows = IF conn = "open" THEN DataRows(b.out) ELSE 0]
          /\ IF conn = "open"
             THEN wire' = wire \o b.out /\ server_stmts' = b.stmts
             ELSE UNCHANGED <<wire, server_stmts>>
    /\ pc' = "reading"
    /\ UNCHANGED <<prepare_opt, healthy, prepared_statements, conn, result,
                   outsideSession>>

\* lines 162-204: the k-th write_all fails: `?` returns Io at once
QueryWriteFail(c) ==
    /\ StartCall
    /\ LET n == portal_count + 1
           name == NameOf(c, n)
           l == Lookup(name, c.param_types)
           ws == Writes(l.prepare)
       IN /\ l.ret = "None"
          /\ \E k \in 1..Len(ws) :
                /\ conn = "broken" => k = 1
                /\ sent' = Flatten(SubSeq(ws, 1, k - 1))
          /\ portal_count' = n
          /\ call' = Locals(c, name, l.prepare)
          /\ columns' = l.columns
          /\ error_to_return' = 0
          /\ hist' = Started(c)
    /\ conn' = "broken"
    /\ result' = "Io"
    /\ UNCHANGED <<prepare_opt, healthy, prepared_statements, wire,
                   server_stmts, pc, outsideSession>>

\* the ErrorResponse of a backend that terminates the session (severity
\* FATAL, as on an administrator's shutdown); it answers no call
Fatal == Msg("ErrorResponse", 0 - 1, 0)

\* lines 134-204 while the backend is shut down: it processed the first k
\* writes of the call, sends its fatal ErrorResponse and closes the
\* connection; the later writes are accepted by the socket and go nowhere.
QueryWriteFatal(c) ==
    /\ StartCall
    /\ conn = "open"
    /\ LET n == portal_count + 1
           name == NameOf(c, n)
           l == Lookup(name, c.param_types)
           loc == Locals(c, name, l.prepare)
           ws == Writes(l.prepare)
       IN /\ l.ret = "None"
          /\ \E k \in 0..(Len(ws) - 1) :
                LET b == Server(Flatten(SubSeq(ws, 1, k)), loc, n)
                IN /\ wire' = wire \o b.out \o <<Fatal>>
                   /\ server_stmts' = b.stmts
          /\ portal_count' = n
          /\ call' = loc
          /\ columns' = l.columns
          /\ error_to_return' = 0
          /\ sent' = Flatten(ws)
          /\ hist' = Started(c)
    /\ conn' = "closed"
    /\ pc' = "reading"
    /\ UNCHANGED <<prepare_opt, healthy, prepared_statements, result,
                   outsideSession>>

(***************************************************************************)
(* Client::query, second part: the read-dispatch loop. st holds the locals *)
(* the match arms change: columns, error_to_return (err), the health flag, *)
(* the cache, and out: "continue" (next message), "break" (done = true) or *)
(* the error returned.                                                     *)
(***************************************************************************)
Remove(ps, name) == [x \in DOMAIN ps \ {name} |-> ps[x]]

Insert(ps, name, info) ==
    [x \in DOMAIN ps \cup {name} |-> IF x = name THEN info ELSE ps[x]]

\* lines 232-240
ArmRowDescription(st, m) ==
    [st EXCEPT !.columns = [i \in 1..m.n |-> 0]]

\* the row-shape errors returned with the cache entry left in place (a
\* mutant of ArmDataRow)
ArmDataRow_KeepsEntry(st, m) ==
    IF m.n < Len(st.columns)
    THEN [st EXCEPT !.out = "TooFewField"]
    ELSE IF m.n > Len(st.columns)
    THEN [st EXCEPT !.out = "TooManyField"]
    ELSE [st EXCEPT !.columns = [i \in DOMAIN st.columns |-> st.columns[i] + 1]]

\* lines 241-262
ArmDataRow(st, m) ==
    IF m.n < Len(st.columns)
    THEN [st EXCEPT !.ps = Remove(st.ps, st.name), !.out = "TooFewField"]
    ELSE IF m.n > Len(st.columns)
    THEN [st EXCEPT !.ps = Remove(st.ps, st.name), !.out = "TooManyField"]
    ELSE [st EXCEPT !.columns = [i \in DOMAIN st.columns |-> st.columns[i] + 1]]

\* lines 263-267
ArmNoData(st, m) ==
    [st EXCEPT !.healthy = mark_healthy, !.out = "break"]

\* ReadyForQuery with a pending error returning QueryError without
\* mark_unhealthy (a mutant of ArmReadyForQuery)
ArmReadyForQuery_ErrorKeepsHealth(st, m) ==
    IF st.err # 0
    THEN [st EXCEPT !.out = "QueryError"]
    ELSE [st EXCEPT !.healthy = mark_healthy, !.out = "break"]

\* ReadyForQuery without error ending the loop without mark_healthy (a
\* mutant of ArmReadyForQuery)
ArmReadyForQuery_OkKeepsHealth(st, m) ==
    IF st.err # 0
    THEN [st EXCEPT !.healthy = mark_unhealthy, !.out = "QueryError"]
    ELSE [st EXCEPT !.out = "break"]

\* lines 268-277
ArmReadyForQuery(st, m) ==
    IF st.err # 0
    THEN [st EXCEPT !.healthy = mark_unhealthy, !.out = "QueryError"]
    ELSE [st EXCEPT !.healthy = mark_healthy, !.out = "break"]

\* every ErrorResponse replacing the pending error (a mutant of
\* ArmErrorResponse)
ArmErrorResponse_KeepsLast(st, m) ==
    [st EXCEPT !.err = m.q]

\* lines 278-284: the error is identified by the call it answers
ArmErrorResponse(st, m) ==
    IF st.err = 0 THEN [st EXCEPT !.err = m.q] ELSE st

\* lines 231-286
Arm(st, m) ==
    CASE m.t = "RowDescription" -> ArmRowDescription(st, m)
      [] m.t = "DataRow" -> ArmDataRow(st, m)
      [] m.t = "NoData" -> ArmNoData(st, m)
      [] m.t = "ReadyForQuery" -> ArmReadyForQuery(st, m)
      [] m.t = "ErrorResponse" -> ArmErrorResponse(st, m)
      [] OTHER -> st

\* line 230: the messages of one read, parsed until the buffer is empty, a
\* break or a return; what is left in read_buffer then is dropped with it.
\* rfq and foreign record whether the ReadyForQuery of this call (q) and a
\* message answering another call were dispatched, errs the ErrorResponse
\* messages dispatched and stop the message that ended the loop.
RECURSIVE Dispatch(_, _, _)
Dispatch(st, buf, q) ==
    IF buf = <<>> THEN st
    ELSE LET m == Head(buf)
             st1 == Arm(st, m)
             st2 == [st1 EXCEPT
                        !.rfq = st.rfq \/ (m.t = "ReadyForQuery" /\ m.q = q),
                        !.foreign = st.foreign \/ m.q # q,
                        !.errs = IF m.t = "ErrorResponse"
                                 THEN Append(st.errs, m.q) ELSE st.errs,
                        !.stop = IF st1.out # "continue" THEN m.t ELSE st.stop]
         IN IF st2.out # "continue" THEN st2 ELSE Dispatch(st2, Tail(buf), q)

\* lines 213-303: one read of k >= 1 messages and their dispatch; on break
\* the cache insert of lines 290-298 and Ok
QueryRead ==
    /\ pc = "reading"
    /\ conn \in {"open", "closed"}
    /\ \E k \in 1..Len(wire) :
        LET st == Dispatch([columns |-> columns, err |-> error_to_return,
                            healthy |-> healthy, ps |-> prepared_statements,
                            name |-> call.name, out |-> "continue",
                            rfq |-> hist.rfq, foreign |-> hist.foreign,
                            errs |-> hist.errs, stop |-> hist.stop],
                           SubSeq(wire, 1, k), portal_count)
        IN /\ wire' = SubSeq(wire, k + 1, Len(wire))
           /\ columns' = st.columns
           /\ error_to_return' = st.err
           /\ healthy' = st.healthy
           /\ hist' = [hist EXCEPT !.rfq = st.rfq, !.foreign = st.foreign,
                                    !.errs = st.errs, !.stop = st.stop]
           /\ CASE st.out = "continue" ->
                    /\ prepared_statements' = st.ps
                    /\ UNCHANGED <<pc, result>>
                [] st.out = "break" ->
                    /\ prepared_statements' =
                          IF call.prepare /\ prepare_opt
                          THEN Insert(st.ps, call.name,
                                      [param_types |-> call.param_types,
                                       columns |-> clone_storages(st.columns)])
                          ELSE st.ps
                    /\ pc' = "idle"
                    /\ result' = "Ok"
                [] OTHER ->
                    /\ prepared_statements' = st.ps
                    /\ pc' = "idle"
                    /\ result' = st.out
    /\ UNCHANGED <<prepare_opt, portal_count, conn, server_stmts, call, sent,
                   dead_calls, outsideSession>>

\* lines 226-229: the backend closed the connection and nothing is left to
\* read: read returns 0
QueryReadClosed ==
    /\ pc = "reading"
    /\ conn = "closed" /\ wire = <<>>
    /\ healthy' = mark_unhealthy
    /\ pc' = "idle"
    /\ result' = "ConnectionClosed"
    /\ UNCHANGED <<prepare_opt, portal_count, prepared_statements, conn, wire,
                   server_stmts, call, columns, error_to_return, sent, hist,
                   dead_calls, outsideSession>>

\* line 219: read fails: `?` returns Io
QueryReadFail ==
    /\ pc = "reading"
    /\ conn = "open"
    /\ conn' = "broken"
    /\ pc' = "idle"
    /\ result' = "Io"
    /\ UNCHANGED <<prepare_opt, healthy, portal_count, prepared_statements,
                   wire, server_stmts, call, columns, error_to_return, sent,
                   hist, dead_calls, outsideSession>>

\* the backend closes the connection
ServerClose ==
    /\ conn = "open"
    /\ conn' = "closed"
    /\ UNCHANGED <<prepare_opt, healthy, portal_count, prepared_statements,
                   wire, server_stmts, pc, call, columns, error_to_return,
                   sent, result, hist, dead_calls, outsideSession>>

\* The caller drops the future of a query that is suspended in the read of
\* line 219 (a timeout or a select around the call): the locals and both
\* lock guards are dropped, and no further line of query runs.
QueryDropped ==
    /\ pc = "reading"
    /\ pc' = "idle"
    /\ result' = "Dropped"
    /\ UNCHANGED <<prepare_opt, healthy, portal_count, prepared_statements,
                   conn, wire, server_stmts, call, columns, error_to_return,
                   sent, hist, dead_calls, outsideSession>>

(***************************************************************************)
(* The session after Client::new and a successful Client::connect.         *)
(***************************************************************************)
\* connect returned Ok after it dispatched ReadyForQuery; no ErrorResponse
\* was printed (error), no read returned zero bytes (eof), and no cleartext
\* password was requested (cleartext)
Handshaken ==
    [result |-> "Ok", rfq |-> TRUE, error |-> FALSE, eof |-> FALSE,
     cleartext |-> FALSE]

InitPoolIdle ==
    /\ available = <<>>
    /\ permits = 0
    /\ task = <<>>
    /\ job = <<>>
    /\ expired = {}

\* no task shares the session
InitSharedIdle ==
    /\ caller = <<>>
    /\ stream_lock = 0
    /\ cache_lock = 0
    /\ backend = [portal |-> "none", skip |-> FALSE]

\* no cell is being decoded
InitDecodeIdle ==
    /\ column = [kind |-> "none", data |-> <<>>]
    /\ pushed = <<>>
    /\ outcome = "ok"
    /\ overflow_checks = FALSE

\* the session was made by a Pool::new that returned Ok (or by the caller)
InitBuilt ==
    /\ client_futures = <<>>
    /\ construction = "Ok"
    /\ InitDecodeIdle

InitSession ==
    /\ prepare_opt \in BOOLEAN
    /\ healthy = TRUE
    /\ portal_count = 0
    /\ prepared_statements = <<>>
    /\ conn = "open"
    /\ wire = <<>>
    /\ server_stmts = {}
    /\ pc = "idle"
    /\ call = [sql |-> "none", param_types |-> <<>>, exec_ok |-> TRUE,
               name |-> "none", prepare |-> FALSE]
    /\ columns = <<>>
    /\ error_to_return = 0
    /\ sent = <<>>
    /\ result = "None"
    /\ hist = [healthy0 |-> TRUE, prev |-> "None", answered |-> FALSE,
               rows |-> 0, rfq |-> FALSE, foreign |-> FALSE, errs |-> <<>>,
               stop |-> "none", succ |-> {}]
    /\ dead_calls = 0
    /\ startup = "done"
    /\ handshake = Handshaken
    /\ InitPoolIdle
    /\ InitSharedIdle
    /\ InitBuilt

NextSession ==
    \/ \E c \in Calls : QueryMismatch(c)
    \/ \E c \in Calls : QueryWrite(c)
    \/ \E c \in Calls : QueryWriteFail(c)
    \/ QueryRead
    \/ QueryReadClosed
    \/ QueryReadFail
    \/ ServerClose

SpecSession == InitSession /\ [][NextSession]_vars

\* the session used by callers that may drop a pending query
NextCancel ==
    \/ NextSession
    \/ QueryDropped

SpecCancel == InitSession /\ [][NextCancel]_vars

\* the session on a backend that may be shut down in the middle of a call
NextFatal ==
    \/ NextSession
    \/ \E c \in Calls : QueryWriteFatal(c)

SpecFatal == InitSession /\ [][NextFatal]_vars

(***************************************************************************)
(* Properties of the session.                                              *)
(***************************************************************************)
Returned == pc = "idle" /\ result \notin {"None", "Dropped"}

Range(f) == {f[i] : i \in DOMAIN f}

\* C1: a query whose Sync reached the backend never returns with the
\* session healthy while a backend message answering it, up to its
\* ReadyForQuery, is unread on the connection: its ReadyForQuery has been
\* dispatched by the call, or has_broken() is true. Stated for the calls
\* during which the connection stays up (the statement of the claim; the
\* code violates it).
C1_ReturnsDrainedOrUnhealthy ==
    (Returned /\ hist.answered /\ conn = "open")
    => \/ ~healthy
       \/ hist.rfq /\ \A i \in DOMAIN wire : wire[i].q # portal_count

\* C2: a query that returned QueryError leaves has_broken() true.
C2_QueryErrorMarksUnhealthy ==
    (Returned /\ result = "QueryError") => ~healthy

C2_Witness ==
    Returned /\ result = "QueryError" /\ hist.healthy0 /\ ~healthy

\* C3: a query that returned Ok leaves has_broken() false.
C3_OkMarksHealthy ==
    (Returned /\ result = "Ok") => healthy

C3_Witness ==
    /\ Returned /\ result = "Ok" /\ healthy
    /\ ~hist.healthy0 /\ hist.prev = "QueryError"

\* C4: after a query returned QueryError, the next query with valid SQL on
\* the session (the backend parses and executes it, the connection is up,
\* the OIDs agree with the cache) returns Ok and has dispatched only
\* messages that answer itself (the statement of the claim; the code
\* violates it).
C4_ValidQueryAfterErrorSucceeds ==
    (/\ Returned /\ hist.prev = "QueryError"
     /\ ParseOk(call.sql) /\ call.exec_ok
     /\ conn = "open" /\ result # "ParamTypeMismatch")
    => (result = "Ok" /\ ~hist.foreign)

\* C5: with caching enabled, a query whose text and OID vector succeeded
\* before on the session writes only Bind, Execute, Close and Sync and
\* returns Ok, when the connection is up and the backend executes it (the
\* statement of the claim; the code violates it).
C5_RepeatedQuerySkipsParseAndSucceeds ==
    (/\ Returned /\ prepare_opt
     /\ <<call.sql, call.param_types>> \in hist.succ
     /\ call.exec_ok /\ conn = "open")
    => (/\ Range(sent) \subseteq {"Bind", "Execute", "Close", "Sync"}
        /\ result = "Ok")

C13_SeriesHoldTheRowsSent ==
    (Returned /\ result = "Ok" /\ hist.answered)
    => \A i \in DOMAIN columns : columns[i] = hist.rows

\* C15: a query that returned Io leaves has_broken() true (the statement of
\* the claim; the code violates it).
C15_IoMarksUnhealthy ==
    (Returned /\ result = "Io") => ~healthy

\* C16: a query that returned TooFewField or TooManyField leaves
\* has_broken() true (the statement of the claim; the code violates it).
C16_RowShapeErrorMarksUnhealthy ==
    (Returned /\ result \in {"TooFewField", "TooManyField"}) => ~healthy

\* C17: when a pending query whose Sync reached the backend is dropped, the
\* session is unhealthy or the answer has been read through the query's
\* ReadyForQuery (the statement of the claim; the code violates it).
C17_DroppedQueryDrainedOrUnhealthy ==
    (pc = "idle" /\ result = "Dropped" /\ hist.answered /\ conn = "open")
    => \/ ~healthy
       \/ hist.rfq /\ \A i \in DOMAIN wire : wire[i].q # portal_count

\* C18: the frontend messages of a query that wrote its Sync are Parse and
\* Describe when the statement is prepared by the call, then Bind, Execute,
\* Close and Sync, each once (the statement of the claim; the code violates
\* it).
C18_FrontendSequence ==
    (sent # <<>> /\ sent[Len(sent)] = "Sync")
    => sent = (IF call.prepare THEN <<"Parse", "Describe">> ELSE <<>>)
              \o <<"Bind", "Execute", "Close", "Sync">>

\* C22: in the read-dispatch of a query the pending error is the first
\* ErrorResponse dispatched, whatever ErrorResponse follows; the loop never
\* ends at an ErrorResponse; and a call returns QueryError only at a
\* ReadyForQuery, with an ErrorResponse dispatched before it.
C22_FirstErrorKeptUntilReady ==
    /\ hist.errs # <<>> => error_to_return = hist.errs[1]
    /\ hist.stop # "ErrorResponse"
    /\ (Returned /\ result = "QueryError")
       => (hist.errs # <<>> /\ hist.stop = "ReadyForQuery")

\* the call goes on after two ErrorResponse messages, the first one pending
C22_Witness ==
    /\ pc = "reading"
    /\ Len(hist.errs) = 2 /\ hist.errs[1] # hist.errs[2]
    /\ error_to_return = hist.errs[1]

\* C23: the step in which a query returns TooFewField or TooManyField
\* leaves the cache without an entry for the statement name of the call,
\* and with the entries of all other names as they were.
C23_RowShapeErrorEvictsEntry ==
    [][(/\ pc = "reading" /\ pc' = "idle"
        /\ result' \in {"TooFewField", "TooManyField"})
       => (/\ call.name \notin DOMAIN prepared_statements'
           /\ DOMAIN prepared_statements'
                = DOMAIN prepared_statements \ {call.name}
           /\ \A x \in DOMAIN prepared_statements' :
                 prepared_statements'[x] = prepared_statements[x])]_vars

\* a cache hit ended with a row-shape error: its entry is gone, another stays
C23_Witness ==
    /\ Returned /\ result \in {"TooFewField", "TooManyField"}
    /\ prepare_opt /\ ~call.prepare
    /\ call.name \notin DOMAIN prepared_statements
    /\ prepared_statements # <<>>

\* C28: with caching enabled, between two calls on a connection that is up
\* the names in the cache are the names of the prepared statements the
\* backend holds, so that Parse is never sent for a name it holds (the
\* statement of the claim; the code violates it).
C28_CacheMatchesServer ==
    (pc = "idle" /\ prepare_opt /\ conn = "open")
    => DOMAIN prepared_statements = server_stmts

(***************************************************************************)
(* The pool (models/pool.rs). A session is seen by the pool through its    *)
(* health flag; `ready` records whether the backend on its connection has  *)
(* completed the startup handshake and is still there. A task acquires one *)
(* handle, runs queries on it and drops it; Drop spawns a release task     *)
(* (job) that returns or replaces the session.                             *)
(***************************************************************************)
Tasks == 1..NumTasks

\* Pool::new: Client::new then connect for every session
Connected == [healthy |-> TRUE, ready |-> TRUE]

\* Client::new (also Client::replace): a TCP connection on which no startup
\* message was sent; healthy is initialised to false
NewClient == [healthy |-> FALSE, ready |-> FALSE]

NoClient == [healthy |-> FALSE, ready |-> FALSE]

SessionIdle ==
    /\ prepare_opt = TRUE
    /\ healthy = TRUE
    /\ portal_count = 0
    /\ prepared_statements = <<>>
    /\ conn = "open"
    /\ wire = <<>>
    /\ server_stmts = {}
    /\ pc = "idle"
    /\ call = [sql |-> "none", param_types |-> <<>>, exec_ok |-> TRUE,
               name |-> "none", prepare |-> FALSE]
    /\ columns = <<>>
    /\ error_to_return = 0
    /\ sent = <<>>
    /\ result = "None"
    /\ hist = [healthy0 |-> TRUE, prev |-> "None", answered |-> FALSE,
               rows |-> 0, rfq |-> FALSE, foreign |-> FALSE, errs |-> <<>>,
               stop |-> "none", succ |-> {}]
    /\ dead_calls = 0
    /\ startup = "done"
    /\ handshake = Handshaken

\* Pool::new returned Ok
InitPool ==
    /\ SessionIdle
    /\ available = [i \in 1..MaxConnections |-> Connected]
    /\ permits = MaxConnections
    /\ task = [t \in Tasks |-> [pc |-> "start", client |-> NoClient]]
    /\ job = [t \in Tasks |-> [pc |-> "none", client |-> NoClient]]
    /\ expired = {}
    /\ InitSharedIdle
    /\ InitBuilt

\* Pool::acquire, line 73: a permit is taken
AcquirePermit(t) ==
    /\ task[t].pc = "start"
    /\ permits > 0
    /\ permits' = permits - 1
    /\ task' = [task EXCEPT ![t].pc = "permit"]
    /\ UNCHANGED <<available, job, expired, outsidePool>>

\* Pool::acquire, line 73, while every permit is held: acquire_owned is
\* awaited without a timer, and PoolOptions.acquire_timeout is read nowhere.
\* The step is the passing of acquire_timeout since the call with no permit
\* released: the call stays suspended.
AcquireTimeoutElapses(t) ==
    /\ task[t].pc = "start"
    /\ permits = 0
    /\ t \notin expired
    /\ expired' = expired \cup {t}
    /\ UNCHANGED <<available, permits, task, job, outsidePool>>

\* Pool::acquire, lines 76-90: the loop pops the last session of the list
\* when there is one (it yields and tries again while the list is empty)
AcquirePop(t) ==
    /\ task[t].pc = "permit"
    /\ available # <<>>
    /\ task' = [task EXCEPT ![t] = [pc |-> "handle",
                                    client |-> available[Len(available)]]]
    /\ available' = SubSeq(available, 1, Len(available) - 1)
    /\ UNCHANGED <<permits, job, expired, outsidePool>>

\* Client::query on the handle's session, the backend answering with an
\* ErrorResponse (client.rs lines 268-273); on a connection without
\* handshake the backend hangs up (lines 226-229)
HandleQueryFailing(t) ==
    /\ task[t].pc = "handle"
    /\ task' = [task EXCEPT ![t].client.healthy = mark_unhealthy]
    /\ UNCHANGED <<available, permits, job, expired, outsidePool>>

\* Client::query on the handle's session with valid SQL: Ok and healthy
\* (client.rs lines 268-277); on a connection without handshake the
\* backend hangs up (lines 226-229)
HandleQueryValid(t) ==
    /\ task[t].pc = "handle"
    /\ task' = [task EXCEPT ![t].client.healthy =
                    IF task[t].client.ready THEN mark_healthy
                                            ELSE mark_unhealthy]
    /\ UNCHANGED <<available, permits, job, expired, outsidePool>>

\* Client::query while the backend closes the connection: ConnectionClosed
\* (client.rs lines 226-229)
HandleQueryClosed(t) ==
    /\ task[t].pc = "handle"
    /\ task[t].client.ready
    /\ task' = [task EXCEPT ![t].client = [healthy |-> mark_unhealthy,
                                           ready |-> FALSE]]
    /\ UNCHANGED <<available, permits, job, expired, outsidePool>>

\* Drop leaving the permit with the dropped handle (a mutant of Drop)
Drop_KeepsPermit(t) ==
    /\ task[t].pc = "handle"
    /\ task' = [task EXCEPT ![t] = [pc |-> "done", client |-> NoClient]]
    /\ job' = [job EXCEPT ![t] = [pc |-> "spawned", client |-> task[t].client]]
    /\ UNCHANGED <<permits, available, expired, outsidePool>>

\* impl Drop for ClientRef, lines 27-41: the release task is spawned with the
\* session; the handle's fields are dropped, _permit with them
Drop(t) ==
    /\ task[t].pc = "handle"
    /\ task' = [task EXCEPT ![t] = [pc |-> "done", client |-> NoClient]]
    /\ job' = [job EXCEPT ![t] = [pc |-> "spawned", client |-> task[t].client]]
    /\ permits' = permits + 1
    /\ UNCHANGED <<available, expired, outsidePool>>

\* The release task returning the unhealthy session to the list before it
\* replaces it (a mutant of ReleaseCheck)
ReleaseCheck_AlsoReturnsOld(t) ==
    /\ job[t].pc = "spawned"
    /\ IF job[t].client.healthy
       THEN /\ job' = [job EXCEPT ![t].pc = "push"]
            /\ UNCHANGED available
       ELSE /\ job' = [job EXCEPT ![t].pc = "replacing"]
            /\ available' = Append(available, job[t].client)
    /\ UNCHANGED <<permits, task, expired, outsidePool>>

\* the release task, lines 31-32: the health flag is read
ReleaseCheck(t) ==
    /\ job[t].pc = "spawned"
    /\ job' = [job EXCEPT ![t].pc = IF job[t].client.healthy THEN "push"
                                                             ELSE "replacing"]
    /\ UNCHANGED <<available, permits, task, expired, outsidePool>>

\* the release task, line 33: client.replace() is Client::new: a TCP
\* connect, and no call of connect
ReplaceOk(t) ==
    /\ job[t].pc = "replacing"
    /\ job' = [job EXCEPT ![t] = [pc |-> "push", client |-> NewClient]]
    /\ UNCHANGED <<available, permits, task, expired, outsidePool>>

\* the release task, line 33: the TCP connect fails and Client::new
\* (client.rs line 41) unwraps the error: the release task panics
ReplacePanic(t) ==
    /\ job[t].pc = "replacing"
    /\ job' = [job EXCEPT ![t] = [pc |-> "panicked", client |-> NoClient]]
    /\ UNCHANGED <<available, permits, task, expired, outsidePool>>

\* the release task, lines 38-39: the session is pushed onto the list
ReleasePush(t) ==
    /\ job[t].pc = "push"
    /\ available' = Append(available, job[t].client)
    /\ job' = [job EXCEPT ![t] = [pc |-> "finished", client |-> NoClient]]
    /\ UNCHANGED <<permits, task, expired, outsidePool>>

NextPool ==
    \E t \in Tasks :
        \/ AcquirePermit(t)
        \/ AcquireTimeoutElapses(t)
        \/ AcquirePop(t)
        \/ HandleQueryFailing(t)
        \/ HandleQueryValid(t)
        \/ HandleQueryClosed(t)
        \/ Drop(t)
        \/ ReleaseCheck(t)
        \/ ReplaceOk(t)
        \/ ReplacePanic(t)
        \/ ReleasePush(t)

SpecPool == InitPool /\ [][NextPool]_vars

\* Scheduling: a task that can take a permit or a session does so, a task
\* holding a handle drops it, and a spawned release task runs to its end.
FairPool ==
    \A t \in Tasks :
        /\ WF_vars(AcquirePermit(t))
        /\ WF_vars(AcquirePop(t))
        /\ WF_vars(Drop(t))
        /\ WF_vars(ReleaseCheck(t))
        /\ WF_vars(ReplaceOk(t) \/ ReplacePanic(t))
        /\ WF_vars(ReleasePush(t))

FairSpecPool == SpecPool /\ FairPool

(***************************************************************************)
(* Properties of the pool.                                                 *)
(***************************************************************************)
Handles == {t \in Tasks : task[t].pc = "handle"}

\* tasks inside acquire that hold a permit and have no session yet
Acquiring == {t \in Tasks : task[t].pc = "permit"}

Failed == {t \in Tasks : job[t].pc = "panicked"}

\* every handle is dropped and every release task has ended
Quiescent ==
    /\ \A t \in Tasks : task[t].pc = "done"
    /\ \A t \in Tasks : job[t].pc \in {"finished", "panicked"}

\* C7: every session in the available list is healthy and has completed the
\* startup handshake (the statement of the claim; the code violates it).
C7_AvailableSessionsHealthy ==
    \A i \in DOMAIN available : available[i].healthy /\ available[i].ready

\* C8 as claimed: free permits plus outstanding handles equal
\* max_connections in every state.
C8_PermitsPlusHandles ==
    permits + Cardinality(Handles) = MaxConnections

\* C8 as amended: free permits, outstanding handles and the acquire calls
\* that hold a permit and have not yet taken a session add up to
\* max_connections; with no acquire call in that position the equation of
\* the claim holds.
C8_PermitsPlusHolders ==
    /\ permits + Cardinality(Handles) + Cardinality(Acquiring) = MaxConnections
    /\ Acquiring = {} => permits + Cardinality(Handles) = MaxConnections

C8_Witness ==
    /\ Acquiring # {} /\ Handles # {} /\ available = <<>>
    /\ permits + Cardinality(Handles) < MaxConnections

\* C9: the sessions held by outstanding handles and the sessions in the
\* available list are never more than max_connections.
C9_SessionsBounded ==
    Cardinality(Handles) + Len(available) <= MaxConnections

C9_Witness ==
    /\ Handles # {}
    /\ Cardinality(Handles) + Len(available) = MaxConnections
    /\ \E i \in DOMAIN available : ~available[i].ready

\* C10: once every handle is dropped and the release work has ended, the
\* available list holds max_connections sessions: no slot is lost (the
\* statement of the claim; the code violates it).
C10_NoSlotLost ==
    Quiescent => Len(available) = MaxConnections

\* C11: an acquire that waited for acquire_timeout while every permit was
\* held, none being released, has returned PoolError("timeout") (the
\* statement of the claim; the code violates it).
C11_ExpiredAcquireReturnsTimeout ==
    \A t \in expired : task[t].pc = "timeout"

\* C19: the free permits are never more than the sessions in the available
\* list, so that a task holding a permit finds a session (the statement of
\* the claim; the code violates it).
C19_PermitsAtMostAvailable ==
    permits <= Len(available)

(***************************************************************************)
(* Pool::new (pool.rs lines 45-70): one future per session makes the       *)
(* session (Client::new) and calls connect on it; join_all waits for all   *)
(* of them, and the first error among the results is returned. The tasks   *)
(* then use the pool that was built.                                       *)
(***************************************************************************)
Slots == 1..MaxConnections

\* a session on which connect returned Ok after a zero-byte read: marked
\* healthy, and the backend never completed the handshake (client.rs lines
\* 86-88 and 125-127)
Unanswered == [healthy |-> TRUE, ready |-> FALSE]

InitNew ==
    /\ SessionIdle
    /\ InitSharedIdle
    /\ InitDecodeIdle
    /\ available = <<>>
    /\ permits = 0
    /\ task = [t \in Tasks |-> [pc |-> "none", client |-> NoClient]]
    /\ job = [t \in Tasks |-> [pc |-> "none", client |-> NoClient]]
    /\ expired = {}
    /\ client_futures = [i \in Slots |-> [pc |-> "new", client |-> NoClient]]
    /\ construction = "running"

\* pool.rs line 54, client.rs lines 40-49: the TCP connection is made
NewTcpConnected(i) ==
    /\ construction = "running"
    /\ client_futures[i].pc = "new"
    /\ client_futures' = [client_futures EXCEPT
                             ![i] = [pc |-> "connect", client |-> NewClient]]
    /\ UNCHANGED <<construction, poolVars, outsideNew>>

\* pool.rs line 54, client.rs line 41: the TCP connect fails and Client::new
\* unwraps the error: the panic unwinds through join_all and Pool::new
NewTcpRefused(i) ==
    /\ construction = "running"
    /\ client_futures[i].pc = "new"
    /\ client_futures' = [client_futures EXCEPT ![i].pc = "refused"]
    /\ construction' = "panicked"
    /\ UNCHANGED <<poolVars, outsideNew>>

\* pool.rs line 55: connect returns Ok after ReadyForQuery (client.rs lines
\* 94-97 and 125-127)
NewConnectReady(i) ==
    /\ construction = "running"
    /\ client_futures[i].pc = "connect"
    /\ client_futures' = [client_futures EXCEPT
                             ![i] = [pc |-> "ok", client |-> Connected]]
    /\ UNCHANGED <<construction, poolVars, outsideNew>>

\* pool.rs line 55: the backend refuses the session or hangs up; connect
\* reads zero bytes and returns Ok (client.rs lines 86-88 and 125-127)
NewConnectHungUp(i) ==
    /\ construction = "running"
    /\ client_futures[i].pc = "connect"
    /\ client_futures' = [client_futures EXCEPT
                             ![i] = [pc |-> "ok", client |-> Unanswered]]
    /\ UNCHANGED <<construction, poolVars, outsideNew>>

\* pool.rs line 55: a socket call of connect fails (client.rs lines 66, 79
\* and 115): connect returns Io and `?` ends the future with the error
NewConnectIo(i) ==
    /\ construction = "running"
    /\ client_futures[i].pc = "connect"
    /\ client_futures' = [client_futures EXCEPT ![i].pc = "err"]
    /\ UNCHANGED <<construction, poolVars, outsideNew>>

\* pool.rs lines 61-69: every future has ended; an error among the results
\* is returned, else the pool is made of the sessions and of a semaphore of
\* max_connections permits
PoolNewCollect ==
    /\ construction = "running"
    /\ \A i \in Slots : client_futures[i].pc \in {"ok", "err"}
    /\ IF \E i \in Slots : client_futures[i].pc = "err"
       THEN /\ construction' = "Err"
            /\ UNCHANGED poolVars
       ELSE /\ construction' = "Ok"
            /\ available' = [i \in Slots |-> client_futures[i].client]
            /\ permits' = MaxConnections
            /\ task' = [t \in Tasks |-> [pc |-> "start", client |-> NoClient]]
            /\ UNCHANGED <<job, expired>>
    /\ UNCHANGED <<client_futures, outsideNew>>

NextNew ==
    \/ \E i \in Slots :
        \/ NewTcpConnected(i)
        \/ NewTcpRefused(i)
        \/ NewConnectReady(i)
        \/ NewConnectHungUp(i)
        \/ NewConnectIo(i)
    \/ PoolNewCollect
    \/ NextPool

SpecNew == InitNew /\ [][NextNew]_vars

(***************************************************************************)
(* Properties of Pool::new.                                                *)
(***************************************************************************)
\* C25: the step in which Pool::new ends returns an error when the TCP
\* connect or the handshake of a session failed, and otherwise returns Ok
\* with max_connections sessions in the available list, each healthy and
\* past its handshake, and max_connections free permits (the statement of
\* the claim; the code violates it).
C25_PoolNewOkOnlyIfAllHandshaken ==
    [][(construction = "running" /\ construction' # "running")
       => IF \E i \in Slots : \/ client_futures'[i].pc \in {"refused", "err"}
                               \/ ~client_futures'[i].client.ready
          THEN construction' = "Err"
          ELSE /\ construction' = "Ok"
               /\ Len(available') = MaxConnections
               /\ \A i \in DOMAIN available' :
                     available'[i].healthy /\ available'[i].ready
               /\ permits' = MaxConnections]_vars

(***************************************************************************)
(* Client::connect (client.rs lines 55-128): the startup handshake of a    *)
(* session made by Client::new, and the backend's side of it.              *)
(***************************************************************************)
\* the authentication the backend demands of the session (pg_hba.conf)
AuthMethods == {"trust", "md5", "password"}

\* the backend accepts the session
Welcome ==
    <<Msg("AuthenticationOk", 0, 0), Msg("ParameterStatus", 0, 0),
      Msg("BackendKeyData", 0, 0), Msg("ReadyForQuery", 0, 0)>>

\* the backend refuses the session: a fatal ErrorResponse, and it hangs up
Refusal == <<Msg("ErrorResponse", 0, 0)>>

\* the backend's answer to the startup packet
StartupAnswer(method, accept) ==
    IF ~accept
    THEN [out |-> Refusal, startup |-> "done", conn |-> "closed"]
    ELSE CASE method = "trust" ->
                [out |-> Welcome, startup |-> "done", conn |-> "open"]
           [] method = "md5" ->
                [out |-> <<Msg("AuthenticationMd5Password", 0, 0)>>,
                 startup |-> "password", conn |-> "open"]
           [] OTHER ->
                [out |-> <<Msg("AuthenticationCleartextPassword", 0, 0)>>,
                 startup |-> "password", conn |-> "open"]

\* the backend's answer to the PasswordMessage it awaits
PasswordAnswer(ok) ==
    IF ok THEN [out |-> Welcome, startup |-> "done", conn |-> "open"]
          ELSE [out |-> Refusal, startup |-> "done", conn |-> "closed"]

\* Client::new, lines 40-49: connected at TCP level, healthy = false
InitConnect ==
    /\ prepare_opt = TRUE
    /\ healthy = FALSE
    /\ portal_count = 0
    /\ prepared_statements = <<>>
    /\ conn = "open"
    /\ wire = <<>>
    /\ server_stmts = {}
    /\ pc = "new"
    /\ call = [sql |-> "none", param_types |-> <<>>, exec_ok |-> TRUE,
               name |-> "none", prepare |-> FALSE]
    /\ columns = <<>>
    /\ error_to_return = 0
    /\ sent = <<>>
    /\ result = "None"
    /\ hist = [healthy0 |-> FALSE, prev |-> "None", answered |-> FALSE,
               rows |-> 0, rfq |-> FALSE, foreign |-> FALSE, errs |-> <<>>,
               stop |-> "none", succ |-> {}]
    /\ dead_calls = 0
    /\ startup = "packet"
    /\ handshake = [result |-> "None", rfq |-> FALSE, error |-> FALSE,
                    eof |-> FALSE, cleartext |-> FALSE]
    /\ InitPoolIdle
    /\ InitSharedIdle
    /\ InitBuilt

\* lines 56-66: the startup message is written; the backend answers it.
\* After the backend closed the connection the bytes go nowhere.
ConnectWrite ==
    /\ pc = "new"
    /\ conn \in {"open", "closed"}
    /\ sent' = <<"StartupMessage">>
    /\ pc' = "handshake"
    /\ IF conn = "open"
       THEN \E method \in AuthMethods, accept \in BOOLEAN :
               LET a == StartupAnswer(method, accept)
               IN /\ wire' = a.out
                  /\ startup' = a.startup
                  /\ conn' = a.conn
       ELSE UNCHANGED <<wire, startup, conn>>
    /\ UNCHANGED <<prepare_opt, healthy, portal_count, prepared_statements,
                   server_stmts, call, columns, error_to_return, result, hist,
                   dead_calls, outsideConnect, handshake>>

\* line 66: write_all fails: `?` returns Io
ConnectWriteFail ==
    /\ pc = "new"
    /\ conn' = "broken"
    /\ pc' = "idle"
    /\ handshake' = [handshake EXCEPT !.result = "Io"]
    /\ UNCHANGED <<prepare_opt, healthy, portal_count, prepared_statements,
                   wire, server_stmts, call, columns, error_to_return, sent,
                   result, hist, dead_calls, outsideConnect, startup>>

\* lines 93-118: one message of the handshake. st: whether ReadyForQuery was
\* seen (ready), whether an ErrorResponse was printed (error), whether the
\* request of a cleartext password was printed (cleartext), and whether a
\* PasswordMessage is written (password).
ConnectArm(st, m) ==
    CASE m.t = "ReadyForQuery" -> [st EXCEPT !.ready = TRUE]
      [] m.t = "ErrorResponse" -> [st EXCEPT !.error = TRUE]
      [] m.t = "AuthenticationCleartextPassword" -> [st EXCEPT !.cleartext = TRUE]
      [] m.t = "AuthenticationMd5Password" -> [st EXCEPT !.password = TRUE]
      [] OTHER -> st

\* line 92: the messages of one read, parsed until the buffer is empty or
\* ReadyForQuery
RECURSIVE ConnectDispatch(_, _)
ConnectDispatch(st, buf) ==
    IF buf = <<>> THEN st
    ELSE LET st2 == ConnectArm(st, Head(buf))
         IN IF st2.ready THEN st2 ELSE ConnectDispatch(st2, Tail(buf))

\* the dispatch of a read of the first k messages on the connection
ConnectChunk(k) ==
    ConnectDispatch([ready |-> FALSE, error |-> handshake.error,
                     cleartext |-> handshake.cleartext, password |-> FALSE],
                    SubSeq(wire, 1, k))

\* lines 72-127: one read of k >= 1 messages and their dispatch; to an MD5
\* request the PasswordMessage is written and the backend answers it; on
\* ReadyForQuery the loop ends: mark_healthy and Ok
ConnectRead ==
    /\ pc = "handshake"
    /\ conn \in {"open", "closed"}
    /\ \E k \in 1..Len(wire) :
        LET st == ConnectChunk(k)
            rest == SubSeq(wire, k + 1, Len(wire))
        IN /\ IF st.password
              THEN /\ sent' = Append(sent, "PasswordMessage")
                   /\ IF conn = "open" /\ startup = "password"
                      THEN \E ok \in BOOLEAN :
                              LET a == PasswordAnswer(ok)
                              IN /\ wire' = rest \o a.out
                                 /\ startup' = a.startup
                                 /\ conn' = a.conn
                      ELSE wire' = rest /\ UNCHANGED <<startup, conn>>
              ELSE wire' = rest /\ UNCHANGED <<sent, startup, conn>>
           /\ IF st.ready
              THEN /\ healthy' = mark_healthy
                   /\ pc' = "idle"
                   /\ handshake' = [handshake EXCEPT !.result = "Ok",
                                       !.rfq = TRUE, !.error = st.error,
                                       !.cleartext = st.cleartext]
              ELSE /\ handshake' = [handshake EXCEPT !.error = st.error,
                                       !.cleartext = st.cleartext]
                   /\ UNCHANGED <<healthy, pc>>
    /\ UNCHANGED <<prepare_opt, portal_count, prepared_statements,
                   server_stmts, call, columns, error_to_return, result, hist,
                   dead_calls, outsideConnect>>

\* line 115: the write of the PasswordMessage fails: `?` returns Io
ConnectPasswordFail ==
    /\ pc = "handshake"
    /\ conn \in {"open", "closed"}
    /\ \E k \in 1..Len(wire) :
        /\ wire[k].t = "AuthenticationMd5Password"
        /\ ConnectChunk(k).password /\ ~ConnectChunk(k).ready
        /\ wire' = SubSeq(wire, k + 1, Len(wire))
        /\ handshake' = [handshake EXCEPT !.result = "Io",
                                          !.error = ConnectChunk(k).error,
                                          !.cleartext = ConnectChunk(k).cleartext]
    /\ conn' = "broken"
    /\ pc' = "idle"
    /\ UNCHANGED <<prepare_opt, healthy, portal_count, prepared_statements,
                   server_stmts, call, columns, error_to_return, sent, result,
                   hist, dead_calls, outsideConnect, startup>>

\* lines 86-88 and 125-127: the backend closed the connection and nothing is
\* left to read: read returns 0, the loop is left, mark_healthy and Ok
ConnectReadClosed ==
    /\ pc = "handshake"
    /\ conn = "closed" /\ wire = <<>>
    /\ handshake' = [handshake EXCEPT !.result = "Ok", !.eof = TRUE]
    /\ healthy' = mark_healthy
    /\ pc' = "idle"
    /\ UNCHANGED <<prepare_opt, portal_count, prepared_statements, conn, wire,
                   server_stmts, call, columns, error_to_return, sent, result,
                   hist, dead_calls, outsideConnect, startup>>

\* line 79: read fails: `?` returns Io
ConnectReadFail ==
    /\ pc = "handshake"
    /\ conn = "open"
    /\ conn' = "broken"
    /\ pc' = "idle"
    /\ handshake' = [handshake EXCEPT !.result = "Io"]
    /\ UNCHANGED <<prepare_opt, healthy, portal_count, prepared_statements,
                   wire, server_stmts, call, columns, error_to_return, sent,
                   result, hist, dead_calls, outsideConnect, startup>>

\* a session is made, connect is called on it, and queries are run on it
NextConnect ==
    \/ ConnectWrite
    \/ ConnectWriteFail
    \/ ConnectRead
    \/ ConnectPasswordFail
    \/ ConnectReadClosed
    \/ ConnectReadFail
    \/ NextSession

SpecConnect == InitConnect /\ [][NextConnect]_vars

(***************************************************************************)
(* Properties of connect.                                                  *)
(***************************************************************************)
\* connect has returned and no query was made on the session since
ConnectReturned == handshake.result # "None" /\ portal_count = 0

\* C12: a connect during which the backend sent an ErrorResponse returns an
\* error and leaves has_broken() true (the statement of the claim; the code
\* violates it).
C12_HandshakeErrorFailsConnect ==
    (ConnectReturned /\ handshake.error)
    => (handshake.result # "Ok" /\ ~healthy)

\* C20: a connect that read zero bytes before any ReadyForQuery does not
\* return Ok and leaves has_broken() true (the statement of the claim, for
\* the handshakes in which the backend sent no ErrorResponse; the code
\* violates it).
C20_HealthyOnlyOnReadyForQuery ==
    (ConnectReturned /\ handshake.eof /\ ~handshake.rfq /\ ~handshake.error)
    => (handshake.result # "Ok" /\ ~healthy)

\* C21: once connect has dispatched AuthenticationCleartextPassword it has
\* written a PasswordMessage or it has returned an error: it is never back
\* in the handshake loop, nor returned Ok, with the request unanswered (the
\* statement of the claim; the code violates it).
C21_CleartextAnsweredOrFails ==
    (handshake.cleartext /\ portal_count = 0)
    => \/ "PasswordMessage" \in Range(sent)
       \/ handshake.result \notin {"None", "Ok"}

(***************************************************************************)
(* One session shared by several tasks (Arc<Client>), each calling query   *)
(* or ping once. Every await of the two methods is a step: the lock of     *)
(* prepared_statements (line 150), the lock of stream (lines 162 and 317), *)
(* each write_all and each read. The backend answers every write at once.  *)
(* A socket call that failed leaves the connection broken.                 *)
(***************************************************************************)
Callers == 1..NumCallers

\* the call whose request a backend message answers: the portal number of a
\* query, and for the ping of caller t, which has none, -t
PingId(t) == 0 - t

NoCall == [sql |-> "none", param_types |-> <<>>, exec_ok |-> TRUE]

\* a task that has not called yet
NotCalled ==
    [pc |-> "start", op |-> "none", c |-> NoCall, n |-> 0, name |-> "none",
     prepare |-> FALSE, columns |-> <<>>, err |-> 0, w |-> 0, ret |-> "None",
     rfq |-> FALSE, foreign |-> FALSE]

InitShared ==
    /\ SessionIdle
    /\ InitPoolIdle
    /\ caller = [t \in Callers |-> NotCalled]
    /\ stream_lock = 0
    /\ cache_lock = 0
    /\ backend = [portal |-> "none", skip |-> FALSE]
    /\ InitBuilt

\* the backend processing the messages ms of one write_all of call c
SharedServer(ms, c, q) ==
    ServerRun([stmts |-> server_stmts, portal |-> backend.portal,
               skip |-> backend.skip, out |-> <<>>], ms, c, q)

\* lines 134-149: the portal counter is incremented under its own lock; the
\* task then awaits the lock of prepared_statements
SharedQueryCount(t, c) ==
    /\ caller[t].pc = "start"
    /\ portal_count' = portal_count + 1
    /\ caller' = [caller EXCEPT ![t] =
                    [NotCalled EXCEPT !.pc = "lookup", !.op = "query", !.c = c,
                                      !.n = portal_count + 1,
                                      !.name = NameOf(c, portal_count + 1)]]
    /\ UNCHANGED <<prepare_opt, healthy, prepared_statements, conn, wire,
                   server_stmts, pc, call, columns, error_to_return, sent,
                   result, hist, dead_calls, outsideShared, stream_lock,
                   cache_lock, backend>>

\* the guard of prepared_statements dropped right after the lookup (a
\* mutant of SharedQueryLookup)
SharedQueryLookup_GuardDropped(t) ==
    /\ caller[t].pc = "lookup"
    /\ cache_lock = 0
    /\ LET l == Lookup(caller[t].name, caller[t].c.param_types)
       IN IF l.ret = "ParamTypeMismatch"
          THEN caller' = [caller EXCEPT ![t].pc = "done",
                                        ![t].ret = "ParamTypeMismatch"]
          ELSE caller' = [caller EXCEPT ![t].pc = "lock",
                                        ![t].prepare = l.prepare,
                                        ![t].columns = l.columns]
    /\ UNCHANGED <<sessVars, outsideShared, stream_lock, cache_lock, backend>>

\* lines 150-160: the lock of prepared_statements is taken and the cache is
\* looked up; on ParamTypeMismatch the guard is dropped with the return
SharedQueryLookup(t) ==
    /\ caller[t].pc = "lookup"
    /\ cache_lock = 0
    /\ LET l == Lookup(caller[t].name, caller[t].c.param_types)
       IN IF l.ret = "ParamTypeMismatch"
          THEN /\ caller' = [caller EXCEPT ![t].pc = "done",
                                           ![t].ret = "ParamTypeMismatch"]
               /\ UNCHANGED cache_lock
          ELSE /\ caller' = [caller EXCEPT ![t].pc = "lock",
                                           ![t].prepare = l.prepare,
                                           ![t].columns = l.columns]
               /\ cache_lock' = t
    /\ UNCHANGED <<sessVars, outsideShared, stream_lock, backend>>

\* line 162: the lock of stream is taken
SharedQueryLock(t) ==
    /\ caller[t].pc = "lock"
    /\ stream_lock = 0
    /\ stream_lock' = t
    /\ caller' = [caller EXCEPT ![t].pc = "write", ![t].w = 1]
    /\ UNCHANGED <<sessVars, outsideShared, cache_lock, backend>>

\* lines 164-204: one write_all of the call. After the backend closed the
\* connection the bytes go nowhere.
SharedQueryWrite(t) ==
    /\ caller[t].pc = "write" /\ caller[t].op = "query"
    /\ conn \in {"open", "closed"}
    /\ LET ws == Writes(caller[t].prepare)
           w == caller[t].w
           loc == Locals(caller[t].c, caller[t].name, caller[t].prepare)
           b == SharedServer(ws[w], loc, caller[t].n)
       IN /\ IF conn = "open"
             THEN /\ wire' = wire \o b.out
                  /\ server_stmts' = b.stmts
                  /\ backend' = [portal |-> b.portal, skip |-> b.skip]
             ELSE UNCHANGED <<wire, server_stmts, backend>>
          /\ caller' = [caller EXCEPT
                           ![t].w = w + 1,
                           ![t].pc = IF w = Len(ws) THEN "read" ELSE "write"]
    /\ UNCHANGED <<prepare_opt, healthy, portal_count, prepared_statements,
                   conn, pc, call, columns, error_to_return, sent, result,
                   hist, dead_calls, outsideShared, stream_lock,
                   cache_lock>>

\* lines 213-303: one read of k >= 1 messages and their dispatch; on break
\* the cache insert and Ok; both guards are dropped with the return
SharedQueryRead(t) ==
    /\ caller[t].pc = "read" /\ caller[t].op = "query"
    /\ conn \in {"open", "closed"}
    /\ \E k \in 1..Len(wire) :
        LET st == Dispatch([columns |-> caller[t].columns,
                            err |-> caller[t].err,
                            healthy |-> healthy, ps |-> prepared_statements,
                            name |-> caller[t].name, out |-> "continue",
                            rfq |-> caller[t].rfq,
                            foreign |-> caller[t].foreign,
                            errs |-> <<>>, stop |-> "none"],
                           SubSeq(wire, 1, k), caller[t].n)
            seen == [caller[t] EXCEPT !.columns = st.columns, !.err = st.err,
                                      !.rfq = st.rfq, !.foreign = st.foreign]
        IN /\ wire' = SubSeq(wire, k + 1, Len(wire))
           /\ healthy' = st.healthy
           /\ CASE st.out = "continue" ->
                    /\ prepared_statements' = st.ps
                    /\ caller' = [caller EXCEPT ![t] = seen]
                    /\ UNCHANGED <<stream_lock, cache_lock>>
                [] st.out = "break" ->
                    /\ prepared_statements' =
                          IF caller[t].prepare /\ prepare_opt
                          THEN Insert(st.ps, caller[t].name,
                                      [param_types |-> caller[t].c.param_types,
                                       columns |-> clone_storages(st.columns)])
                          ELSE st.ps
                    /\ caller' = [caller EXCEPT ![t] =
                                    [seen EXCEPT !.pc = "done", !.ret = "Ok"]]
                    /\ stream_lock' = 0 /\ cache_lock' = 0
                [] OTHER ->
                    /\ prepared_statements' = st.ps
                    /\ caller' = [caller EXCEPT ![t] =
                                    [seen EXCEPT !.pc = "done", !.ret = st.out]]
                    /\ stream_lock' = 0 /\ cache_lock' = 0
    /\ UNCHANGED <<prepare_opt, portal_count, conn, server_stmts, pc, call,
                   columns, error_to_return, sent, result, hist, dead_calls,
                   outsideShared, backend>>

\* lines 226-229: read returns 0: mark_unhealthy and ConnectionClosed
SharedQueryReadClosed(t) ==
    /\ caller[t].pc = "read" /\ caller[t].op = "query"
    /\ conn = "closed" /\ wire = <<>>
    /\ healthy' = mark_unhealthy
    /\ caller' = [caller EXCEPT ![t].pc = "done",
                                ![t].ret = "ConnectionClosed"]
    /\ stream_lock' = 0 /\ cache_lock' = 0
    /\ UNCHANGED <<prepare_opt, portal_count, prepared_statements, conn, wire,
                   server_stmts, pc, call, columns, error_to_return, sent,
                   result, hist, dead_calls, outsideShared, backend>>

\* a write_all or a read of query (lines 166-219) or of ping (lines 320 and
\* 329) fails: `?` returns Io, and the guards are dropped with the return
SharedIoFail(t) ==
    /\ caller[t].pc \in {"write", "read"}
    /\ conn # "closed"
    /\ conn' = "broken"
    /\ caller' = [caller EXCEPT ![t].pc = "done", ![t].ret = "Io"]
    /\ stream_lock' = 0
    /\ cache_lock' = IF cache_lock = t THEN 0 ELSE cache_lock
    /\ UNCHANGED <<prepare_opt, healthy, portal_count, prepared_statements,
                   wire, server_stmts, pc, call, columns, error_to_return,
                   sent, result, hist, dead_calls, outsideShared,
                   backend>>

\* line 317: ping takes the lock of stream
SharedPingLock(t) ==
    /\ caller[t].pc = "start"
    /\ stream_lock = 0
    /\ stream_lock' = t
    /\ caller' = [caller EXCEPT ![t] =
                    [NotCalled EXCEPT !.pc = "write", !.op = "ping",
                                      !.n = PingId(t), !.w = 1]]
    /\ UNCHANGED <<sessVars, outsideShared, cache_lock, backend>>

\* lines 318-320: the simple Query of ping is written
SharedPingWrite(t) ==
    /\ caller[t].pc = "write" /\ caller[t].op = "ping"
    /\ conn \in {"open", "closed"}
    /\ LET b == SharedServer(<<"Query">>, caller[t].c, caller[t].n)
       IN IF conn = "open"
          THEN /\ wire' = wire \o b.out
               /\ backend' = [portal |-> b.portal, skip |-> b.skip]
          ELSE UNCHANGED <<wire, backend>>
    /\ caller' = [caller EXCEPT ![t].pc = "read", ![t].w = 2]
    /\ UNCHANGED <<prepare_opt, healthy, portal_count, prepared_statements,
                   conn, server_stmts, pc, call, columns, error_to_return,
                   sent, result, hist, dead_calls, outsideShared,
                   stream_lock, cache_lock>>

\* lines 337-349: the messages of one read of ping: ReadyForQuery returns Ok
\* with mark_healthy, ErrorResponse returns PingFailed with mark_unhealthy
RECURSIVE PingDispatch(_, _, _)
PingDispatch(st, buf, q) ==
    IF buf = <<>> THEN st
    ELSE LET m == Head(buf)
             st1 == [st EXCEPT
                        !.rfq = st.rfq \/ (m.t = "ReadyForQuery" /\ m.q = q),
                        !.foreign = st.foreign \/ m.q # q]
         IN CASE m.t = "ReadyForQuery" ->
                    [st1 EXCEPT !.healthy = mark_healthy, !.out = "Ok"]
              [] m.t = "ErrorResponse" ->
                    [st1 EXCEPT !.healthy = mark_unhealthy, !.out = "PingFailed"]
              [] OTHER -> PingDispatch(st1, Tail(buf), q)

\* lines 324-350: one read of k >= 1 messages by ping and their dispatch;
\* the guard of stream is dropped with the return
SharedPingRead(t) ==
    /\ caller[t].pc = "read" /\ caller[t].op = "ping"
    /\ conn \in {"open", "closed"}
    /\ \E k \in 1..Len(wire) :
        LET st == PingDispatch([healthy |-> healthy, out |-> "continue",
                                rfq |-> caller[t].rfq,
                                foreign |-> caller[t].foreign],
                               SubSeq(wire, 1, k), caller[t].n)
            seen == [caller[t] EXCEPT !.rfq = st.rfq, !.foreign = st.foreign]
        IN /\ wire' = SubSeq(wire, k + 1, Len(wire))
           /\ healthy' = st.healthy
           /\ IF st.out = "continue"
              THEN /\ caller' = [caller EXCEPT ![t] = seen]
                   /\ UNCHANGED stream_lock
              ELSE /\ caller' = [caller EXCEPT ![t] =
                                    [seen EXCEPT !.pc = "done", !.ret = st.out]]
                   /\ stream_lock' = 0
    /\ UNCHANGED <<prepare_opt, portal_count, prepared_statements, conn,
                   server_stmts, pc, call, columns, error_to_return, sent,
                   result, hist, dead_calls, outsideShared, cache_lock,
                   backend>>

\* lines 333-335: read returns 0: ping returns ConnectionClosed; the health
\* flag is left as it was
SharedPingReadClosed(t) ==
    /\ caller[t].pc = "read" /\ caller[t].op = "ping"
    /\ conn = "closed" /\ wire = <<>>
    /\ caller' = [caller EXCEPT ![t].pc = "done",
                                ![t].ret = "ConnectionClosed"]
    /\ stream_lock' = 0
    /\ UNCHANGED <<sessVars, outsideShared, cache_lock, backend>>

NextShared ==
    \/ \E t \in Callers :
        \/ \E c \in Calls : SharedQueryCount(t, c)
        \/ SharedQueryLookup(t)
        \/ SharedQueryLock(t)
        \/ SharedQueryWrite(t)
        \/ SharedQueryRead(t)
        \/ SharedQueryReadClosed(t)
        \/ SharedPingLock(t)
        \/ SharedPingWrite(t)
        \/ SharedPingRead(t)
        \/ SharedPingReadClosed(t)
        \/ SharedIoFail(t)
    \/ ServerClose

SpecShared == InitShared /\ [][NextShared]_vars

\* lines 134-149 in a call of the SQL text that the other tasks query
SharedQuerySameText(t, c) ==
    /\ \A u \in Callers : caller[u].op = "query" => caller[u].c.sql = c.sql
    /\ SharedQueryCount(t, c)

\* the tasks that query the session all do so with one SQL text, with
\* parameters of their own; other tasks ping it
NextSameText ==
    \/ \E t \in Callers :
        \/ \E c \in Calls : SharedQuerySameText(t, c)
        \/ SharedQueryLookup(t)
        \/ SharedQueryLock(t)
        \/ SharedQueryWrite(t)
        \/ SharedQueryRead(t)
        \/ SharedQueryReadClosed(t)
        \/ SharedPingLock(t)
        \/ SharedPingWrite(t)
        \/ SharedPingRead(t)
        \/ SharedPingReadClosed(t)
        \/ SharedIoFail(t)
    \/ ServerClose

SpecSameText == InitShared /\ [][NextSameText]_vars

(***************************************************************************)
(* Properties of the shared session.                                       *)
(***************************************************************************)
\* the calls that are between their first socket write and their return
Exchanging == {t \in Callers : caller[t].pc \in {"write", "read"}
                               /\ caller[t].w > 1}

\* C14: at most one call is between its first write and its return, and no
\* call has dispatched a backend message that answers another call (the
\* statement of the claim; the code violates it).
C14_OneExchangeAtATime ==
    /\ Cardinality(Exchanging) <= 1
    /\ \A t \in Callers : ~caller[t].foreign

\* the query calls between their cache lookup and their return
Looked == {t \in Callers : caller[t].op = "query"
                           /\ caller[t].pc \in {"lock", "write", "read"}}

\* a step of caller t other than the failure of a socket call
CallerStep(t) ==
    \/ \E c \in Calls : SharedQuerySameText(t, c)
    \/ SharedQueryLookup(t)
    \/ SharedQueryLock(t)
    \/ SharedQueryWrite(t)
    \/ SharedQueryRead(t)
    \/ SharedQueryReadClosed(t)
    \/ SharedPingLock(t)
    \/ SharedPingWrite(t)
    \/ SharedPingRead(t)
    \/ SharedPingReadClosed(t)

\* C29, for tasks that query one SQL text and tasks that ping, on one
\* session: with caching enabled, at most one query call is between its cache
\* lookup and its return; a lookup misses only if no call of the same
\* statement name has returned Ok, so that of the calls of one name at most
\* one writes Parse as long as the first succeeds; and the locks are never
\* deadlocked: a lock is held by a call that is writing or reading, or for
\* the cache lock waiting for the stream, a call that returned holds none,
\* and while a call is pending on a connection that is not broken some
\* call can take a step.
C29_LookupAfterReturnNoDeadlock ==
    /\ [](/\ Cardinality(Looked) <= 1
          /\ stream_lock # 0 => caller[stream_lock].pc \in {"write", "read"}
          /\ cache_lock # 0 => cache_lock \in Looked
          /\ \A t \in Callers :
                caller[t].pc = "done" => (stream_lock # t /\ cache_lock # t)
          /\ (conn # "broken" /\ \E t \in Callers : caller[t].pc # "done")
             => \E t \in Callers : ENABLED CallerStep(t))
    /\ [][\A t \in Callers :
            (/\ caller[t].pc = "lookup" /\ caller'[t].pc = "lock"
             /\ caller'[t].prepare)
            => \A u \in Callers \ {t} :
                  ~(/\ caller[u].op = "query"
                    /\ caller[u].name = caller[t].name
                    /\ caller[u].ret = "Ok")]_vars

\* two calls of one text: the one whose portal number is the higher took
\* the cache lock first, wrote Parse and returned Ok; the other waited,
\* found the entry, wrote no Parse and returned Ok
C29_Witness ==
    \E t, u \in Callers :
        /\ caller[t].op = "query" /\ caller[u].op = "query"
        /\ caller[t].name = caller[u].name /\ caller[t].n < caller[u].n
        /\ caller[u].prepare /\ caller[u].ret = "Ok"
        /\ ~caller[t].prepare /\ caller[t].ret = "Ok"

\* C24: the step in which a query or a ping returns ConnectionClosed, its
\* read having returned zero bytes, leaves has_broken() true (the statement
\* of the claim; the code violates it).
C24_ZeroReadMarksUnhealthy ==
    [][\A t \in Callers :
          (caller[t].pc = "read" /\ caller'[t].ret = "ConnectionClosed")
          => ~healthy']_vars

(***************************************************************************)
(* The decoding of a cell: push_column_value (models/column_result.rs) and *)
(* parse_text_array (utils/text_array.rs). A payload is the sequence of    *)
(* its bytes. An integer cell is kept as the big-endian bytes of its two's *)
(* complement, so that an addition has the width it has in the code.       *)
(***************************************************************************)
\* Option<T>
Some(x) == [null |-> FALSE, v |-> x]
None == [null |-> TRUE, v |-> <<>>]

\* the 4 bytes of the 32-bit two's complement of x, big-endian
to_be_bytes(x) ==
    LET u == IF x < 0 THEN 0 - x - 1 ELSE x
        b == <<u \div 16777216, (u \div 65536) % 256, (u \div 256) % 256,
               u % 256>>
    IN IF x < 0 THEN [i \in 1..4 |-> 255 - b[i]] ELSE b

\* i32::from_be_bytes
from_be_bytes(b) ==
    IF b[1] < 128
    THEN b[1] * 16777216 + b[2] * 65536 + b[3] * 256 + b[4]
    ELSE 0 - ((255 - b[1]) * 16777216 + (255 - b[2]) * 65536
              + (255 - b[3]) * 256 + (255 - b[4])) - 1

\* the sum of two integers of the same width, wrapped to that width: byte
\* i and below, with the carry into it
RECURSIVE add_from(_, _, _, _)
add_from(a, b, i, carry) ==
    IF i = 0 THEN <<>>
    ELSE LET sum == a[i] + b[i] + carry
         IN add_from(a, b, i - 1, sum \div 256) \o <<sum % 256>>

wrapping_add(a, b) == add_from(a, b, Len(a), 0)

\* the signed addition overflows: operands of one sign, a sum of the other
overflowing_add(a, b) ==
    /\ (a[1] >= 128) = (b[1] >= 128)
    /\ (wrapping_add(a, b)[1] >= 128) # (a[1] >= 128)

\* column_result.rs line 105: 10957 days from 1970-01-01 to 2000-01-01
DateOffset == to_be_bytes(10957)

\* column_result.rs lines 121 and 136: 946684800_000_000 microseconds, an i64
TimestampOffset == <<0, 3, 93, 1, 59, 55, 224, 0>>

\* the variants of ColumnStorage decoded here
Kinds == {"Dates", "Timestamps", "TimestampsWtz", "TextArray"}

\* the payload width the arm of a variant matches, and the offset it adds
Width(kind) == IF kind = "Dates" THEN 4 ELSE 8

Offset(kind) == IF kind = "Dates" THEN DateOffset ELSE TimestampOffset

\* text_array.rs, read_i32::<BigEndian>: four bytes are taken, or the read
\* fails with an io::Error that `?` converts into PgToPlError::Io
read_i32(bytes) ==
    IF Len(bytes) < 4
    THEN [err |-> "Io", val |-> 0, rest |-> <<>>]
    ELSE [err |-> "none", val |-> from_be_bytes(SubSeq(bytes, 1, 4)),
          rest |-> SubSeq(bytes, 5, Len(bytes))]

\* text_array.rs lines 23-38: n elements are read; a length that is
\* negative and not -1 is cast to a usize larger than any slice; a string
\* with a byte above 127 is no UTF-8 here
RECURSIVE read_items(_, _, _)
read_items(n, bytes, values) ==
    IF n = 0 THEN [err |-> "none", values |-> values]
    ELSE LET item_len == read_i32(bytes)
         IN IF item_len.err # "none"
            THEN [err |-> item_len.err, values |-> <<>>]
            ELSE IF item_len.val = 0 - 1
            THEN read_items(n - 1, item_len.rest, Append(values, None))
            ELSE IF item_len.val < 0 \/ Len(item_len.rest) < item_len.val
            THEN [err |-> "NotEnoughBytes", values |-> <<>>]
            ELSE LET str_bytes == SubSeq(item_len.rest, 1, item_len.val)
                     rest == SubSeq(item_len.rest, item_len.val + 1,
                                    Len(item_len.rest))
                 IN IF \E i \in DOMAIN str_bytes : str_bytes[i] >= 128
                    THEN [err |-> "Io", values |-> <<>>]
                    ELSE read_items(n - 1, rest,
                                    Append(values, Some(str_bytes)))

\* text_array.rs lines 6-41. A negative dim_len is cast to a usize for
\* which Vec::with_capacity panics (err "panic").
parse_text_array(bytes) ==
    LET ndim == read_i32(bytes)
        has_null == read_i32(ndim.rest)
        element_oid == read_i32(has_null.rest)
        dim_len == read_i32(element_oid.rest)
        lower_bound == read_i32(dim_len.rest)
        Err(e) == [err |-> e, values |-> <<>>]
    IN IF ndim.err # "none" THEN Err(ndim.err)
       ELSE IF ndim.val = 0 THEN [err |-> "none", values |-> <<>>]
       ELSE IF ndim.val # 1 THEN Err("OnlyOneDimensionArraySupported")
       ELSE IF has_null.err # "none" THEN Err(has_null.err)
       ELSE IF element_oid.err # "none" THEN Err(element_oid.err)
       ELSE IF dim_len.err # "none" THEN Err(dim_len.err)
       ELSE IF lower_bound.err # "none" THEN Err(lower_bound.err)
       ELSE IF dim_len.val < 0 THEN Err("panic")
       ELSE read_items(dim_len.val, lower_bound.rest, <<>>)

\* column_result.rs lines 102-140: the arms of Dates, TextArray, Timestamps
\* and TimestampsWtz. The result of parse_text_array is unwrapped. An
\* addition that overflows panics in a build with overflow checks and wraps
\* in a build without.
push_column_value(col, value, checks) ==
    LET push(x) == [column |-> [col EXCEPT !.data = Append(col.data, x)],
                    outcome |-> "ok"]
        panicked == [column |-> col, outcome |-> "panic"]
    IN IF col.kind = "TextArray"
       THEN IF value.null THEN push(None)
            ELSE LET val == parse_text_array(value.v)
                 IN IF val.err # "none" THEN panicked
                                        ELSE push(Some(val.values))
       ELSE IF ~value.null /\ Len(value.v) = Width(col.kind)
            THEN IF overflowing_add(value.v, Offset(col.kind)) /\ checks
                 THEN panicked
                 ELSE push(Some(wrapping_add(value.v, Offset(col.kind))))
            ELSE push(None)

(***************************************************************************)
(* The payloads decoded: what a backend sends for a cell, and what a       *)
(* backend that is not PostgreSQL, or a corrupted message, may hold.       *)
(***************************************************************************)
\* the elements of a text[] as array_send writes them: -1 for NULL, else the
\* length of the string and its bytes
RECURSIVE Elements(_)
Elements(items) ==
    IF items = <<>> THEN <<>>
    ELSE (IF Head(items).null
          THEN to_be_bytes(0 - 1)
          ELSE to_be_bytes(Len(Head(items).v)) \o Head(items).v)
         \o Elements(Tail(items))

\* the length and the lower bound of each of ndim dimensions
RECURSIVE Dims(_, _)
Dims(ndim, dim_len) ==
    IF ndim <= 0 THEN <<>>
    ELSE to_be_bytes(dim_len) \o to_be_bytes(1) \o Dims(ndim - 1, 1)

\* a text[] value: ndim, the null flag, the element OID 25, the dimensions
\* and the elements
ArrayPayload(ndim, dim_len, items) ==
    to_be_bytes(ndim) \o to_be_bytes(0) \o to_be_bytes(25)
    \o Dims(ndim, dim_len) \o Elements(items)

\* elements: NULL, the empty string, "a", and a byte that is no UTF-8
Items == {None, Some(<<>>), Some(<<97>>), Some(<<255>>)}

ItemLists == UNION {[1..n -> Items] : n \in 0..MaxItems}

\* the empty array, arrays of one and of two dimensions, whole or cut short,
\* and an array whose header declares a negative length
TextArrays ==
    {ArrayPayload(0, 0, <<>>), ArrayPayload(1, 0 - 1, <<>>)}
    \cup {LET b == ArrayPayload(ndim, Len(items), items)
          IN SubSeq(b, 1, Len(b) - k) :
             ndim \in {1, 2}, items \in ItemLists, k \in 0..MaxCut}

\* the largest integer to which the offset off is added without overflow
LargestFor(off) ==
    [i \in DOMAIN off |-> IF i = 1 THEN 127 - off[i] ELSE 255 - off[i]]

\* integers of w bytes around zero, around the ends of the range (i32::MAX
\* and i64::MAX are 'infinity', the minimum '-infinity') and around the
\* largest one that does not overflow; payloads of another width
FixedPayloads(w, off) ==
    {[i \in 1..w |-> IF i = 1 THEN first ELSE IF i = w THEN last ELSE mid] :
        first \in {0, 127, 128, 255}, mid \in {0, 255}, last \in {0, 1, 255}}
    \cup {LargestFor(off),
          wrapping_add(LargestFor(off), [i \in 1..w |-> IF i = w THEN 1 ELSE 0])}
    \cup {[i \in 1..n |-> 0] : n \in {0, w - 1, w + 1}}

\* the values push_column_value is called with for a column of a variant
Inputs(kind) ==
    {None} \cup {Some(b) : b \in IF kind = "TextArray"
                                 THEN TextArrays
                                 ELSE FixedPayloads(Width(kind), Offset(kind))}

InitDecode ==
    /\ SessionIdle
    /\ InitPoolIdle
    /\ InitSharedIdle
    /\ client_futures = <<>>
    /\ construction = "Ok"
    /\ column \in {[kind |-> k, data |-> <<>>] : k \in Kinds}
    /\ pushed = <<>>
    /\ outcome = "ok"
    /\ overflow_checks \in BOOLEAN

\* client.rs lines 245-249: the cell of a DataRow is pushed onto its column
PushColumnValue(value) ==
    /\ outcome = "ok"
    /\ Len(pushed) < MaxCells
    /\ LET r == push_column_value(column, value, overflow_checks)
       IN /\ column' = r.column
          /\ outcome' = r.outcome
    /\ pushed' = Append(pushed, value)
    /\ UNCHANGED <<overflow_checks, sessVars, poolVars, connVars, shareVars,
                   newVars>>

NextDecode == \E value \in Inputs(column.kind) : PushColumnValue(value)

SpecDecode == InitDecode /\ [][NextDecode]_vars

(***************************************************************************)
(* Properties of the decoding.                                             *)
(***************************************************************************)
\* C26: a non-null text[] cell whose header has ndim outside {0, 1}, or one
\* of whose elements is cut short, ends the call with the error
\* OnlyOneDimensionArraySupported, or NotEnoughBytes, returned as a value,
\* and the task does not panic (the statement of the claim; the code
\* violates it).
C26_ArrayErrorReturnedAsValue ==
    (column.kind = "TextArray" /\ pushed # <<>> /\ ~pushed[Len(pushed)].null)
    => LET val == parse_text_array(pushed[Len(pushed)].v)
       IN val.err \in {"OnlyOneDimensionArraySupported", "NotEnoughBytes"}
          => outcome = val.err

\* C27: every payload given to a DATE, TIMESTAMP or TIMESTAMPTZ column has
\* its cell: for a payload of the width of the type the payload plus the
\* offset of the epochs, the sum not wrapped (the sum of a payload that is
\* not negative is not negative), and a null cell for any other width (the
\* statement of the claim; the code violates it).
C27_EpochShiftExact ==
    column.kind \in {"Dates", "Timestamps", "TimestampsWtz"}
    => \A i \in DOMAIN pushed :
          /\ i \in DOMAIN column.data
          /\ IF ~pushed[i].null /\ Len(pushed[i].v) = Width(column.kind)
             THEN /\ ~column.data[i].null
                  /\ column.data[i].v
                       = wrapping_add(pushed[i].v, Offset(column.kind))
                  /\ pushed[i].v[1] < 128 => column.data[i].v[1] < 128
             ELSE column.data[i].null

====
